---- MODULE Spec2Model ----
(***************************************************************************)
(* jnorm: a streaming normalizer that turns one nested JSON document into  *)
(* flat tables (one .jsonl file per joined hierarchy path).                *)
(*                                                                         *)
(* The model follows src/src/jnorm/main.py: the Entity properties, the     *)
(* Writer (router, last_id, files), and the mutually recursive procedures  *)
(* parse_array / parse_map, one action per branch of their event loops.    *)
(* The call stack is explicit (stack); the Entity's hierarchy list is one  *)
(* shared mutable list, as in the code.  The tokenizer (ijson) is the      *)
(* environment: in the first run it yields any well-formed event stream    *)
(* over the input's keys and scalars; a second run re-reads the same       *)
(* source into the same target folder.                                     *)
(*                                                                         *)
(* Strings that the code joins or compares (path segments, column names,   *)
(* table names, file names) are sequences of one-character strings, so     *)
(* that "_".join is real concatenation.                                    *)
(***************************************************************************)
EXTENDS Integers, Sequences, FiniteSets, TLC

VARIABLES
    input,      \* the source document's alphabet and length bound (fixed per behaviour)
    stream,     \* events of the source file read so far (the file's content)
    pos,        \* number of events the current run's parser has yielded
    run,        \* 1: first run, 2: the re-run on the same source and target
    pc,         \* "main" | "walk" | "end" | "done" | "crashed"
    hierarchy,  \* entity.hierarchy, the one list shared by every call frame
    stack,      \* call frames of parse_map / parse_array, innermost last
    router,     \* Writer.router: table name -> [writer, last_id]
    files,      \* the target folder: file name -> lines written
    summaryOut, \* what Writer.summary printed: [rows, total] or NoSummary
    log,        \* history: one entry per Writer.write call of this run, in order
    truncs,     \* history: file names unlinked by initialize_writer in this run, in order
    first       \* history: [log, files, router, summaryOut] at the end of run 1

vars == <<input, stream, pos, run, pc, hierarchy, stack, router, files,
          summaryOut, log, truncs, first>>

-----------------------------------------------------------------------------
(* Bounds of the explored inputs                                           *)

\* longest event stream of a document over every kind of scalar
MaxEvents == 6
\* longest event stream of a document whose keys include an id column
MaxEventsReserved == 9
\* longest event stream of a document of objects and arrays only
MaxEventsDeep == 11

-----------------------------------------------------------------------------
(* Text                                                                    *)

SEP == <<"_">>
ID_SUFFIX == <<"_", "i", "d">>
JSONL_SUFFIX == <<".", "j", "s", "o", "n", "l">>
VALUE_COL == <<"v", "a", "l", "u", "e">>

\* args.source.stem
Stem == <<"r">>

KeyA == <<"a">>
KeyB == <<"b">>
KeyAB == <<"a", "_", "b">>
KeyRId == <<"r", "_", "i", "d">>

-----------------------------------------------------------------------------
(* Python values                                                           *)

None == [t |-> "none"]
PyInt(n) == [t |-> "int", n |-> n]
PyBool(b) == [t |-> "bool", b |-> b]
PyStr(s) == [t |-> "str", s |-> s]
\* decimal.Decimal and float, both held in tenths (15 is 1.5)
PyDecimal(x) == [t |-> "decimal", tenths |-> x]
PyFloat(x) == [t |-> "float", tenths |-> x]
TypeError == [t |-> "TypeError"]

\* float(value)
ToFloat(v) == PyFloat(v.tenths)

\* the numeric value of an int, bool or float, in tenths
NumTenths(v) ==
    CASE v.t = "int" -> 10 * v.n
      [] v.t = "bool" -> IF v.b THEN 10 ELSE 0
      [] OTHER -> v.tenths

\* a + b as Python evaluates it when b is a number: a str raises TypeError,
\* a float makes the sum a float, ints and bools add as ints
PyAdd(a, b) ==
    IF a.t \notin {"int", "bool", "float"} \/ b.t \notin {"int", "bool", "float"}
    THEN TypeError
    ELSE IF a.t = "float" \/ b.t = "float"
    THEN PyFloat(NumTenths(a) + NumTenths(b))
    ELSE PyInt((NumTenths(a) + NumTenths(b)) \div 10)

\* f"{v:,}" of a number: a bool prints as the int it is
FormatCount(v) == IF v.t = "bool" THEN PyInt(IF v.b THEN 1 ELSE 0) ELSE v

Digit(d) == <<"0", "1", "2", "3", "4", "5", "6", "7", "8", "9">>[d + 1]

\* str(Decimal) for a value of tenths below 100: "1.5"
DecimalStr(x) == <<Digit(x \div 10), ".", Digit(x % 10)>>

-----------------------------------------------------------------------------
(* OrderedDict: a sequence of [k, v] with distinct keys, in insertion order *)

EmptyDict == <<>>

HasKey(d, k) == \E i \in 1..Len(d) : d[i].k = k

\* d[k]
Get(d, k) == d[CHOOSE i \in 1..Len(d) : d[i].k = k].v

\* d[k] = v: an existing key keeps its position, a new key goes last
SetItem(d, k, v) ==
    IF HasKey(d, k)
    THEN [i \in 1..Len(d) |-> IF d[i].k = k THEN [k |-> k, v |-> v] ELSE d[i]]
    ELSE Append(d, [k |-> k, v |-> v])

Keys(d) == [i \in 1..Len(d) |-> d[i].k]

-----------------------------------------------------------------------------
(* Entity                                                                  *)

RECURSIVE Join(_)
\* "_".join(h)
Join(h) ==
    IF Len(h) = 0 THEN <<>>
    ELSE IF Len(h) = 1 THEN h[1]
    ELSE Join(SubSeq(h, 1, Len(h) - 1)) \o SEP \o h[Len(h)]

Name(h) == Join(h)

IdCol(h) == Name(h) \o ID_SUFFIX

TargetFile(h) == Name(h) \o JSONL_SUFFIX

HasParent(h) == Len(h) > 1

ParentName(h) == Join(SubSeq(h, 1, Len(h) - 1))

ParentIdCol(h) == ParentName(h) \o ID_SUFFIX

-----------------------------------------------------------------------------
(* json.dumps(record, default=str)                                         *)

\* one value: a Decimal is not JSON serializable, so default=str makes it a string
JsonValue(v) ==
    CASE v.t = "int" -> [j |-> "number", n |-> v.n]
      [] v.t = "float" -> [j |-> "number", tenths |-> v.tenths]
      [] v.t = "bool" -> [j |-> "bool", b |-> v.b]
      [] v.t = "str" -> [j |-> "string", s |-> v.s]
      [] v.t = "decimal" -> [j |-> "string", s |-> DecimalStr(v.tenths)]
      [] OTHER -> [j |-> "null"]

JsonDumps(record) ==
    [i \in 1..Len(record) |-> [k |-> record[i].k, v |-> JsonValue(record[i].v)]]

-----------------------------------------------------------------------------
(* Writer                                                                  *)

\* Writer.__init__
NewRouter == EmptyDict

\* the writer state threaded through a call: router, files and the histories
WriterState == [router |-> router, files |-> files, log |-> log, truncs |-> truncs]

\* target_file.unlink(missing_ok=True)
Unlink(fs, f) == [g \in DOMAIN fs \ {f} |-> fs[g]]

NoFiles == [g \in {} |-> <<>>]

\* open(target_file, "a") on a missing file creates it empty
OpenAppend(fs, f) == IF f \in DOMAIN fs THEN fs ELSE fs @@ (f :> <<>>)

\* initialize_writer without the unlink: the file of an earlier run is kept
InitializeWriterKeepingFile(w, h) ==
    [w EXCEPT
        !.files = OpenAppend(w.files, TargetFile(h)),
        !.router = SetItem(w.router, Name(h),
                           [writer |-> TargetFile(h), last_id |-> PyInt(0)]),
        !.truncs = Append(w.truncs, TargetFile(h))]

InitializeWriter(w, h) ==
    [w EXCEPT
        !.files = OpenAppend(Unlink(w.files, TargetFile(h)), TargetFile(h)),
        !.router = SetItem(w.router, Name(h),
                           [writer |-> TargetFile(h), last_id |-> PyInt(0)]),
        !.truncs = Append(w.truncs, TargetFile(h))]

\* get_last_id taking an unrouted table's last id from the rows its file holds
GetLastIdFromFile(rt, h) ==
    IF HasKey(rt, Name(h)) THEN Get(rt, Name(h)).last_id
    ELSE IF TargetFile(h) \in DOMAIN files THEN PyInt(Len(files[TargetFile(h)]))
    ELSE PyInt(0)

GetLastId(rt, h) ==
    IF HasKey(rt, Name(h)) THEN Get(rt, Name(h)).last_id ELSE PyInt(0)

\* Writer.write; meta is the history entry of the call.  The method has no
\* return statement, so the call evaluates to None (returned).
Write(w, h, record, meta) ==
    LET w1 == IF ~HasKey(w.router, Name(h)) THEN InitializeWriter(w, h) ELSE w
        route == Get(w1.router, Name(h))
        f == route.writer
    IN  [w1 EXCEPT
            !.files = [w1.files EXCEPT ![f] = Append(@, JsonDumps(record))],
            !.router = SetItem(w1.router, Name(h),
                               [route EXCEPT !.last_id = Get(record, IdCol(h))]),
            !.log = Append(w1.log,
                           meta @@ [table |-> Name(h), idcol |-> IdCol(h), file |-> f,
                                    path |-> h, record |-> record,
                                    line |-> JsonDumps(record),
                                    returned |-> None])]

-----------------------------------------------------------------------------
(* The token stream (ijson.parse): the environment                         *)

\* the event a scalar of the document is reported as
EventOf(v) ==
    [type |-> CASE v.t = "str" -> "string"
                [] v.t = "bool" -> "boolean"
                [] v.t = "none" -> "null"
                [] OTHER -> "number",
     value |-> v]

Structural(type) == [type |-> type, value |-> None]

\* short documents over every kind of scalar
FullInput ==
    [keys |-> {KeyA, KeyRId},
     scalars |-> {PyInt(7), PyStr(<<"s">>), PyBool(TRUE), PyDecimal(15), None},
     maxEvents |-> MaxEvents]

\* documents of strings, one of whose keys is the root's id column
ReservedInput ==
    [keys |-> {KeyA, KeyRId},
     scalars |-> {PyStr(<<"s">>)},
     maxEvents |-> MaxEventsReserved]

\* long documents of objects and arrays only, whose keys contain the separator
DeepInput ==
    [keys |-> {KeyA, KeyB, KeyAB},
     scalars |-> {},
     maxEvents |-> MaxEventsDeep]

Inputs == {FullInput, ReservedInput, DeepInput}

\* The events the parser may yield next among `fresh`, all of one kind.  In run 1
\* the document is still being revealed: any of them, as long as the document can
\* still be closed within its length (closeAfter: events needed to close it once
\* this one is read).  In run 2 it is the next event of the same source.
Offered(fresh, types, closeAfter) ==
    IF run = 1
    THEN IF pos + 1 + closeAfter <= input.maxEvents THEN fresh ELSE {}
    ELSE IF pos < Len(stream) /\ stream[pos + 1].type \in types
         THEN {stream[pos + 1]}
         ELSE {}

ScalarTypes == {"string", "number", "boolean"}

Scalars == {EventOf(v) : v \in {x \in input.scalars : x.t # "none"}}

Nulls == {EventOf(v) : v \in {x \in input.scalars : x.t = "none"}}

MapKeys == {[type |-> "map_key", value |-> k] : k \in input.keys}

\* the for loop takes event e from the parser
Take(e) ==
    /\ stream' = IF run = 1 THEN Append(stream, e) ELSE stream
    /\ pos' = pos + 1

-----------------------------------------------------------------------------
(* Call frames                                                             *)

Top == stack[Len(stack)]

Depth == Len(stack)

Pop(s) == SubSeq(s, 1, Len(s) - 1)

\* history: the objects whose parse_map call is on the stack, outermost first
OpenObjects(stk) ==
    LET maps == SelectSeq(stk, LAMBDA fr : fr.mode = "map")
    IN  [i \in 1..Len(maps) |-> [obj |-> maps[i].obj, id |-> maps[i].id]]

\* history: the calls on the stack, outermost first, as they were entered
Calls(stk) ==
    [i \in 1..Len(stk) |->
        [mode |-> stk[i].mode, obj |-> stk[i].obj, path |-> stk[i].path,
         parent_id |-> stk[i].parent_id]]

\* parse_array called without the parent id
ArrayFrameDroppingParent(parent_id) == [mode |-> "array", parent_id |-> None]

ArrayFrame(parent_id) == [mode |-> "array", parent_id |-> parent_id]

\* parse_map writing the record as soon as it has its id columns, and again at
\* end_map
EnterMapWritingFirst(w, h, parent_id, obj) ==
    LET id == PyAdd(GetLastId(w.router, h), PyInt(1))
        r0 == SetItem(EmptyDict, IdCol(h), id)
        r1 == IF parent_id # None THEN SetItem(r0, ParentIdCol(h), parent_id) ELSE r0
        meta == [kind |-> "object", owner |-> obj, open |-> OpenObjects(stack),
                 alloc |-> id, parent_arg |-> parent_id, fields |-> <<>>,
                 srcs |-> EmptyDict, src |-> None, calls |-> Calls(stack)]
    IN  [raised |-> id = TypeError,
         w |-> IF id = TypeError THEN w ELSE Write(w, h, r1, meta),
         frame |-> [mode |-> "map", map_key |-> None, id |-> id,
                    parent_id |-> parent_id, record |-> r1,
                    obj |-> obj, awaits |-> "key", fields |-> <<>>,
                    srcs |-> EmptyDict, path |-> h]]

\* parse_map's prologue: the id is read off the writer, the record starts with
\* the id column and, under a parent, the parent id column.  obj (the position of
\* the start_map event), awaits, fields, srcs and path (entity.hierarchy at
\* entry) are history.
EnterMap(w, h, parent_id, obj) ==
    LET id == PyAdd(GetLastId(w.router, h), PyInt(1))
        r0 == SetItem(EmptyDict, IdCol(h), id)
        r1 == IF parent_id # None THEN SetItem(r0, ParentIdCol(h), parent_id) ELSE r0
    IN  [raised |-> id = TypeError,
         w |-> w,
         frame |-> [mode |-> "map", map_key |-> None, id |-> id,
                    parent_id |-> parent_id, record |-> r1,
                    obj |-> obj, awaits |-> "key", fields |-> <<>>,
                    srcs |-> EmptyDict, path |-> h]]

SetWriter(w) ==
    /\ router' = w.router
    /\ files' = w.files
    /\ log' = w.log
    /\ truncs' = w.truncs

\* an uncaught exception ends the process, the frames stk and the path h as they are
Raise(stk, h) ==
    /\ pc' = "crashed"
    /\ stack' = stk
    /\ hierarchy' = h
    /\ UNCHANGED <<router, files, log, truncs>>

\* the call of parse_map made without the caller's push of the pending key
CallMapWithoutPush(stk, h, parent_id) ==
    LET c == EnterMap(WriterState, hierarchy, parent_id, pos + 1)
    IN  IF c.raised
        THEN Raise(stk, hierarchy)
        ELSE /\ pc' = "walk"
             /\ hierarchy' = hierarchy
             /\ stack' = Append(stk, c.frame)
             /\ SetWriter(c.w)

\* the call parse_map(parser, entity, writer, parent_id) from the frames stk,
\* with entity.hierarchy already h
CallMap(stk, h, parent_id) ==
    LET c == EnterMap(WriterState, h, parent_id, pos + 1)
    IN  IF c.raised
        THEN Raise(stk, h)
        ELSE /\ pc' = "walk"
             /\ hierarchy' = h
             /\ stack' = Append(stk, c.frame)
             /\ SetWriter(c.w)

\* parse_array opening its table on entry, before any element is read
CallArrayOpeningTable(stk, h, parent_id) ==
    /\ pc' = "walk"
    /\ hierarchy' = h
    /\ stack' = Append(stk, ArrayFrame(parent_id) @@ [obj |-> pos + 1, path |-> h])
    /\ SetWriter(IF HasKey(router, Name(h)) THEN WriterState
                 ELSE InitializeWriter(WriterState, h))

\* parse_array pushing a path segment of its own when called for an array that
\* is an element of an array
CallArrayPushingSegment(stk, h, parent_id) ==
    LET h2 == IF stk # <<>> /\ stk[Len(stk)].mode = "array"
              THEN Append(h, VALUE_COL) ELSE h
    IN  /\ pc' = "walk"
        /\ hierarchy' = h2
        /\ stack' = Append(stk, ArrayFrame(parent_id) @@ [obj |-> pos + 1, path |-> h2])
        /\ UNCHANGED <<router, files, log, truncs>>

\* the call parse_array(parser, entity, writer, parent_id); obj (the position of
\* the start_array event) and path (entity.hierarchy at entry) are history
CallArray(stk, h, parent_id) ==
    /\ pc' = "walk"
    /\ hierarchy' = h
    /\ stack' = Append(stk, ArrayFrame(parent_id) @@ [obj |-> pos + 1, path |-> h])
    /\ UNCHANGED <<router, files, log, truncs>>

\* `return parser` without the caller's entity.hierarchy.pop()
ReturnWithoutPop ==
    LET rest == Pop(stack)
    IN  /\ stack' = rest
        /\ pc' = IF rest = <<>> THEN "end" ELSE "walk"
        /\ hierarchy' = hierarchy

\* `return parser`: the frame is left; a parse_map caller then pops the segment
\* it pushed for the call (entity.hierarchy.pop()), main goes on with its loop
Return ==
    LET rest == Pop(stack)
    IN  /\ stack' = rest
        /\ pc' = IF rest = <<>> THEN "end" ELSE "walk"
        /\ hierarchy' = IF rest # <<>> /\ rest[Len(rest)].mode = "map"
                        THEN Pop(hierarchy)
                        ELSE hierarchy

-----------------------------------------------------------------------------
(* Writer.summary                                                          *)

NoSummary == [printed |-> FALSE]

RECURSIVE Total(_, _)
\* total += record_count, route by route from the n-th
Total(rt, n) ==
    IF n = 0 THEN PyInt(0) ELSE PyAdd(Total(rt, n - 1), rt[n].v.last_id)

Summary(rt) ==
    [printed |-> TRUE,
     rows |-> [i \in 1..Len(rt) |->
                 [entity |-> rt[i].k, records |-> FormatCount(rt[i].v.last_id)]],
     total |-> Total(rt, Len(rt))]

-----------------------------------------------------------------------------
(* Init and main                                                           *)

Init ==
    /\ input \in Inputs
    /\ stream = <<>>
    /\ pos = 0
    /\ run = 1
    /\ pc = "main"
    /\ hierarchy = <<Stem>>
    /\ stack = <<>>
    /\ router = NewRouter
    /\ files = NoFiles
    /\ summaryOut = NoSummary
    /\ log = <<>>
    /\ truncs = <<>>
    /\ first = [ended |-> FALSE]

\* main: event == "start_map"
MainStartMap ==
    /\ pc = "main"
    /\ \E e \in Offered({Structural("start_map")}, {"start_map"}, 1) :
        /\ Take(e)
        /\ CallMap(<<>>, hierarchy, None)
    /\ UNCHANGED <<input, run, summaryOut, first>>

\* main: event == "start_array"
MainStartArray ==
    /\ pc = "main"
    /\ \E e \in Offered({Structural("start_array")}, {"start_array"}, 1) :
        /\ Take(e)
        /\ CallArray(<<>>, hierarchy, None)
    /\ UNCHANGED <<input, run, summaryOut, first>>

\* main: any other event (a document that is one scalar) matches no branch
MainOther ==
    /\ pc = "main"
    /\ \E e \in Offered(Scalars \cup Nulls, ScalarTypes \cup {"null"}, 0) :
        /\ Take(e)
        /\ pc' = "end"
    /\ UNCHANGED <<input, run, hierarchy, stack, router, files, summaryOut,
                   log, truncs, first>>

\* main: the parser is exhausted, writer.summary() runs
MainEOF ==
    /\ pc = "end"
    /\ run = 2 => pos = Len(stream)
    /\ IF Total(router, Len(router)) = TypeError
       THEN pc' = "crashed" /\ UNCHANGED summaryOut
       ELSE pc' = "done" /\ summaryOut' = Summary(router)
    /\ UNCHANGED <<input, stream, pos, run, hierarchy, stack, router, files,
                   log, truncs, first>>

\* the program is started again on the same source and target
Rerun ==
    /\ run = 1
    /\ pc \in {"done", "crashed"}
    /\ run' = 2
    /\ pc' = "main"
    /\ pos' = 0
    /\ hierarchy' = <<Stem>>
    /\ stack' = <<>>
    /\ router' = NewRouter
    /\ summaryOut' = NoSummary
    /\ log' = <<>>
    /\ truncs' = <<>>
    /\ first' = [ended |-> TRUE, pc |-> pc, log |-> log, files |-> files,
                 router |-> router, summaryOut |-> summaryOut, truncs |-> truncs]
    /\ UNCHANGED <<input, stream, files>>

-----------------------------------------------------------------------------
(* parse_array                                                             *)

InArray == pc = "walk" /\ Top.mode = "array"

\* event in ["string", "number", "boolean"]
ArrayScalar ==
    /\ InArray
    /\ \E e \in Offered(Scalars, ScalarTypes, Depth) :
        LET id == PyAdd(GetLastId(router, hierarchy), PyInt(1))
            r0 == SetItem(EmptyDict, IdCol(hierarchy), id)
            r1 == IF Top.parent_id # None
                  THEN SetItem(r0, ParentIdCol(hierarchy), Top.parent_id)
                  ELSE r0
            record == SetItem(r1, VALUE_COL, e.value)
            meta == [kind |-> "element", owner |-> pos + 1,
                     open |-> OpenObjects(stack), alloc |-> id,
                     parent_arg |-> Top.parent_id, fields |-> <<>>,
                     srcs |-> EmptyDict, src |-> e.value, calls |-> Calls(stack)]
        IN  /\ Take(e)
            /\ IF id = TypeError
               THEN Raise(stack, hierarchy)
               ELSE /\ SetWriter(Write(WriterState, hierarchy, record, meta))
                    /\ UNCHANGED <<pc, hierarchy, stack>>
    /\ UNCHANGED <<input, run, summaryOut, first>>

\* event == "start_array"
ArrayStartArray ==
    /\ InArray
    /\ \E e \in Offered({Structural("start_array")}, {"start_array"}, Depth + 1) :
        /\ Take(e)
        /\ CallArray(stack, hierarchy, Top.parent_id)
    /\ UNCHANGED <<input, run, summaryOut, first>>

\* event == "start_map"
ArrayStartMap ==
    /\ InArray
    /\ \E e \in Offered({Structural("start_map")}, {"start_map"}, Depth + 1) :
        /\ Take(e)
        /\ CallMap(stack, hierarchy, Top.parent_id)
    /\ UNCHANGED <<input, run, summaryOut, first>>

\* event == "end_array"
ArrayEndArray ==
    /\ InArray
    /\ \E e \in Offered({Structural("end_array")}, {"end_array"}, Depth - 1) :
        /\ Take(e)
        /\ Return
    /\ UNCHANGED <<input, run, router, files, summaryOut, log, truncs, first>>

\* a null element matches no branch
ArrayNull ==
    /\ InArray
    /\ \E e \in Offered(Nulls, {"null"}, Depth) :
        Take(e)
    /\ UNCHANGED <<input, run, pc, hierarchy, stack, router, files, summaryOut,
                   log, truncs, first>>

-----------------------------------------------------------------------------
(* parse_map                                                               *)

InMap == pc = "walk" /\ Top.mode = "map"

\* the frames with the innermost one replaced
WithTop(fr) == [stack EXCEPT ![Len(stack)] = fr]

\* event == "map_key"
MapKey ==
    /\ InMap
    /\ Top.awaits = "key"
    /\ \E e \in Offered(MapKeys, {"map_key"}, Depth + 1) :
        /\ Take(e)
        /\ stack' = WithTop([Top EXCEPT !.map_key = e.value, !.awaits = "value"])
    /\ UNCHANGED <<input, run, pc, hierarchy, router, files, summaryOut,
                   log, truncs, first>>

\* event == "start_map"
MapStartMap ==
    /\ InMap
    /\ Top.awaits = "value"
    /\ \E e \in Offered({Structural("start_map")}, {"start_map"}, Depth + 1) :
        /\ Take(e)
        /\ CallMap(WithTop([Top EXCEPT !.awaits = "key"]),
                   Append(hierarchy, Top.map_key), Top.id)
    /\ UNCHANGED <<input, run, summaryOut, first>>

\* record[map_key] = float(value) if isinstance(value, decimal.Decimal) else value
FieldValue(v) == IF v.t = "decimal" THEN ToFloat(v) ELSE v

\* event in ["string", "number", "boolean"]
MapScalar ==
    /\ InMap
    /\ Top.awaits = "value"
    /\ \E e \in Offered(Scalars, ScalarTypes, Depth) :
        /\ Take(e)
        /\ stack' = WithTop(
              [Top EXCEPT
                 !.record = SetItem(@, Top.map_key, FieldValue(e.value)),
                 !.awaits = "key",
                 !.fields = IF \E i \in 1..Len(@) : @[i] = Top.map_key
                            THEN @ ELSE Append(@, Top.map_key),
                 !.srcs = SetItem(@, Top.map_key, e.value)])
    /\ UNCHANGED <<input, run, pc, hierarchy, router, files, summaryOut,
                   log, truncs, first>>

\* event == "start_array"
MapStartArray ==
    /\ InMap
    /\ Top.awaits = "value"
    /\ \E e \in Offered({Structural("start_array")}, {"start_array"}, Depth + 1) :
        /\ Take(e)
        /\ CallArray(WithTop([Top EXCEPT !.awaits = "key"]),
                     Append(hierarchy, Top.map_key), Top.id)
    /\ UNCHANGED <<input, run, summaryOut, first>>

\* event == "end_map"
MapEndMap ==
    /\ InMap
    /\ Top.awaits = "key"
    /\ \E e \in Offered({Structural("end_map")}, {"end_map"}, Depth - 1) :
        LET meta == [kind |-> "object", owner |-> Top.obj,
                     open |-> OpenObjects(Pop(stack)), alloc |-> Top.id,
                     parent_arg |-> Top.parent_id, fields |-> Top.fields,
                     srcs |-> Top.srcs, src |-> None, calls |-> Calls(stack)]
        IN  /\ Take(e)
            /\ SetWriter(Write(WriterState, hierarchy, Top.record, meta))
            /\ Return
    /\ UNCHANGED <<input, run, summaryOut, first>>

\* a null field value matches no branch
MapNull ==
    /\ InMap
    /\ Top.awaits = "value"
    /\ \E e \in Offered(Nulls, {"null"}, Depth) :
        /\ Take(e)
        /\ stack' = WithTop([Top EXCEPT !.awaits = "key"])
    /\ UNCHANGED <<input, run, pc, hierarchy, router, files, summaryOut,
                   log, truncs, first>>

-----------------------------------------------------------------------------

Next ==
    \/ MainStartMap
    \/ MainStartArray
    \/ MainOther
    \/ MainEOF
    \/ Rerun
    \/ ArrayScalar
    \/ ArrayStartArray
    \/ ArrayStartMap
    \/ ArrayEndArray
    \/ ArrayNull
    \/ MapKey
    \/ MapStartMap
    \/ MapScalar
    \/ MapStartArray
    \/ MapEndMap
    \/ MapNull

Spec == Init /\ [][Next]_vars

-----------------------------------------------------------------------------
(* Reading the history                                                     *)

Rows == 1..Len(log)

\* the rows appended to table t before the i-th append of the run
RowsBefore(i, t) == {j \in 1..(i - 1) : log[j].table = t}

RowsOf(t) == {j \in Rows : log[j].table = t}

\* the own-ID value the i-th appended row carries in its file
OwnId(i) == Get(log[i].line, log[i].idcol)

JsonInt(n) == [j |-> "number", n |-> n]

Completed == pc = "done"

Ended == pc \in {"done", "crashed"}

RECURSIVE LinesOf(_, _)
\* the lines the first n appends of the run put in file f, in order
LinesOf(f, n) ==
    IF n = 0 THEN <<>>
    ELSE IF log[n].file = f THEN Append(LinesOf(f, n - 1), log[n].line)
    ELSE LinesOf(f, n - 1)

IsPrefix(a, b) == Len(a) <= Len(b) /\ SubSeq(b, 1, Len(a)) = a

-----------------------------------------------------------------------------
(* C1 *)

\* C1: in every table the k-th row appended carries the own-ID value k.
C1_IdsAreOneToN ==
    \A i \in Rows :
        OwnId(i) = JsonInt(Cardinality(RowsBefore(i, log[i].table)) + 1)

(* C2 *)

\* C2: when a run completes, the parent-ID value of every row that has a
\* parent-ID column is the own-ID value of a row of the parent table.
C2_ParentIdsResolve ==
    Completed =>
        \A i \in Rows :
            log[i].parent_arg # None =>
                \E j \in Rows :
                    /\ log[j].table = ParentName(log[i].path)
                    /\ OwnId(j) = Get(log[i].line, ParentIdCol(log[i].path))

(* C3 *)

\* C3: a row produced inside an object (at any depth) is appended before that
\* object's own row, which is appended by the end of the run and carries the ID
\* fixed at start_object; that ID is what the nearest enclosing object handed
\* down as the parent ID.
C3_DescendantsBeforeAncestor ==
    \A i \in Rows :
        /\ \A k \in 1..Len(log[i].open) :
              /\ \A j \in Rows :
                    (log[j].kind = "object" /\ log[j].owner = log[i].open[k].obj)
                        => (i < j /\ log[j].alloc = log[i].open[k].id)
              /\ Completed =>
                    \E j \in Rows :
                        log[j].kind = "object" /\ log[j].owner = log[i].open[k].obj
        /\ Len(log[i].open) > 0 =>
              log[i].parent_arg = log[i].open[Len(log[i].open)].id

\* a completed run in which a row was written two objects deep, so that the
\* rows of both enclosing objects followed it
C3_Witness ==
    /\ Completed
    /\ \E i \in Rows : Len(log[i].open) >= 2

(* C4 *)

\* C4: an object's row is its ID column holding the allocated ID, then the
\* parent-ID column holding the parent ID passed in (when there is one), then
\* one column per scalar field in order of first encounter.
C4_ObjectRowColumns ==
    \A i \in Rows :
        log[i].kind = "object" =>
            LET r == log[i].record
                p == log[i].parent_arg # None
                n == IF p THEN 2 ELSE 1
            IN  /\ Keys(r) = <<log[i].idcol>>
                                \o (IF p THEN <<ParentIdCol(log[i].path)>> ELSE <<>>)
                                \o log[i].fields
                /\ r[1].v = log[i].alloc
                /\ p => r[2].v = log[i].parent_arg
                /\ log[i].line = JsonDumps(r)

(* C5 *)

\* the last own-ID value written to table t so far, 0 when it has no row
LastWritten(t) ==
    IF RowsOf(t) = {} THEN PyInt(0)
    ELSE log[CHOOSE j \in RowsOf(t) : \A k \in RowsOf(t) : k <= j].record[1].v

\* C5: reading a string, number or boolean element of an array appends, in that
\* step, exactly one row to the table named after the array's path: its ID column
\* (last ID of the table + 1), the parent-ID column when there is a parent ID,
\* and a column value holding the element.
C5_ArrayScalarAppendsRow ==
    [][(InArray /\ pos' = pos + 1 /\ stream'[pos'].type \in ScalarTypes) =>
          /\ Len(log') = Len(log) + 1
          /\ SubSeq(log', 1, Len(log)) = log
          /\ LET row == log'[Len(log')]
                 t == Name(hierarchy)
                 f == TargetFile(hierarchy)
             IN  /\ row.table = t
                 /\ row.record =
                       <<[k |-> IdCol(hierarchy), v |-> PyAdd(LastWritten(t), PyInt(1))]>>
                       \o (IF Top.parent_id # None
                           THEN <<[k |-> ParentIdCol(hierarchy), v |-> Top.parent_id]>>
                           ELSE <<>>)
                       \o <<[k |-> VALUE_COL, v |-> stream'[pos'].value]>>
                 /\ f \in DOMAIN files'
                 /\ Len(files'[f]) >= 1
                 /\ files'[f][Len(files'[f])] = row.line
                 /\ \A g \in DOMAIN files' \ {f} : g \in DOMAIN files /\ files'[g] = files[g]
      ]_vars

(* C6 *)

\* the JSON a scalar of the document is to be written as: a Decimal as the
\* float number, anything else unchanged
AsWritten(v) ==
    CASE v.t = "decimal" -> [j |-> "number", tenths |-> v.tenths]
      [] v.t = "int" -> [j |-> "number", n |-> v.n]
      [] v.t = "bool" -> [j |-> "bool", b |-> v.b]
      [] OTHER -> [j |-> "string", s |-> v.s]

\* C6: a Decimal reaches its row as a float, as a field value and as an array
\* element alike; strings, booleans and integers are written unchanged.
C6_DecimalsWrittenAsFloats ==
    \A i \in Rows :
        /\ log[i].kind = "element" =>
              Get(log[i].line, VALUE_COL) = AsWritten(log[i].src)
        /\ log[i].kind = "object" =>
              \A k \in 1..Len(log[i].srcs) :
                  Get(log[i].line, log[i].srcs[k].k) = AsWritten(log[i].srcs[k].v)

(* C7 *)

\* C7: after the second run the target holds exactly what the first run left;
\* a file written in a run holds that run's lines only; no file is truncated
\* twice in one run.
C7_RerunIdempotent ==
    /\ (run = 2 /\ Ended) => files = first.files
    /\ \A i \in Rows : files[log[i].file] = LinesOf(log[i].file, Len(log))
    /\ \A i, j \in 1..Len(truncs) : truncs[i] = truncs[j] => i = j

\* the second run completed, having rewritten two files, one of them with two rows
C7_Witness ==
    /\ run = 2
    /\ Completed
    /\ Len(truncs) >= 2
    /\ \E f \in DOMAIN files : Len(files[f]) >= 2

(* C8 *)

\* C8: the summary lists every table with the number of rows appended to it in
\* the run, and the total number of rows appended.
C8_SummaryCountsRows ==
    Completed =>
        /\ {summaryOut.rows[k].entity : k \in 1..Len(summaryOut.rows)}
              = {log[i].table : i \in Rows}
        /\ \A k \in 1..Len(summaryOut.rows) :
              summaryOut.rows[k].records
                  = PyInt(Cardinality(RowsOf(summaryOut.rows[k].entity)))
        /\ summaryOut.total = PyInt(Len(log))

(* C9 *)

\* C9: two rows are in the same table exactly when they were written at the
\* same hierarchy path; different paths differ in table name, ID column and file.
C9_TableIdentityIsPathIdentity ==
    \A i, j \in Rows :
        /\ (log[i].table = log[j].table) <=> (log[i].path = log[j].path)
        /\ log[i].path # log[j].path =>
              /\ log[i].idcol # log[j].idcol
              /\ log[i].file # log[j].file

(* C10 *)

\* C10: the second run on the same events makes the same appends in the same
\* order as the first (so the same tables, rows and counts), and ends as it did.
C10_RunsAgree ==
    run = 2 =>
        /\ IsPrefix(log, first.log)
        /\ Ended =>
              /\ log = first.log
              /\ Keys(router) = Keys(first.router)
              /\ pc = first.pc
              /\ summaryOut = first.summaryOut

\* the second run completed after appending to two tables, one of them twice
C10_Witness ==
    /\ run = 2
    /\ Completed
    /\ \E i, j, k \in Rows :
          i < j /\ log[i].table = log[j].table /\ log[k].table # log[i].table

(* C11 *)

RECURSIVE FirstFiles(_)
\* the files of the first n appends of the run, each once, in order of first append
FirstFiles(n) ==
    IF n = 0 THEN <<>>
    ELSE IF \E j \in 1..(n - 1) : log[j].file = log[n].file
    THEN FirstFiles(n - 1)
    ELSE Append(FirstFiles(n - 1), log[n].file)

\* C11: a table is registered in the router and its file created at the first
\* append to it and not before: the tables registered are those with a row, the
\* files created in the run are, in order, the files of the first appends, and
\* in a fresh target folder the files that exist are the files with a row.
C11_TablesOpenedOnFirstAppend ==
    /\ {router[k].k : k \in 1..Len(router)} = {log[i].table : i \in Rows}
    /\ truncs = FirstFiles(Len(log))
    /\ run = 1 => DOMAIN files = {log[i].file : i \in Rows}
    /\ \A f \in DOMAIN files : Len(files[f]) >= 1

\* a completed first run that walked an empty array and wrote to two tables
C11_Witness ==
    /\ run = 1
    /\ Completed
    /\ Len(router) = 2
    /\ \E i \in 1..(Len(stream) - 1) :
          stream[i].type = "start_array" /\ stream[i + 1].type = "end_array"

(* C12 *)

\* C12: Writer.write returns the committed ID, the value of the table's counter
\* after the append.
C12_WriteReturnsCommittedId ==
    Len(log) > 0 =>
        log[Len(log)].returned = Get(router, log[Len(log)].table).last_id

(* C13 *)

\* C13: while an object's parse_map call is open, the ID it allocated at
\* start_object is still the last ID of its table + 1, and no row has been
\* appended to its table since; so it is at the moment end_object is read.
C13_AllocatedIdStaysNext ==
    \A k \in 1..Len(stack) :
        stack[k].mode = "map" =>
            /\ stack[k].id = PyAdd(GetLastId(router, stack[k].path), PyInt(1))
            /\ \A i \in Rows :
                  log[i].owner > stack[k].obj => log[i].table # Name(stack[k].path)

\* an object under a key that contains the separator is open, about to read its
\* end_object, and rows were appended since its start_object
C13_Witness ==
    /\ pc = "walk"
    /\ Top.mode = "map"
    /\ Top.awaits = "key"
    /\ \E j \in 1..Len(Top.path) : Top.path[j] = KeyAB
    /\ \E i \in Rows : log[i].owner > Top.obj

(* C14 *)

\* the call the i-th row was written from, counted from the outermost
Writer_(i) == Len(log[i].calls)

\* the i-th row is that of an object that is an element of an array
ObjectInArray(i) ==
    /\ log[i].kind = "object"
    /\ Writer_(i) >= 2
    /\ log[i].calls[Writer_(i) - 1].mode = "array"

\* C14: the row of an object that is an element of an array is in the table of
\* the array's path, and its parent-ID is the ID of the object that holds the
\* array (none at the root); the array's start event owns no row.
C14_ArrayObjectsBelongToHolder ==
    \A i \in Rows :
        ObjectInArray(i) =>
            LET array == log[i].calls[Writer_(i) - 1]
                held == Len(log[i].open) > 0
            IN  /\ log[i].path = array.path
                /\ log[i].table = Name(array.path)
                /\ ~held => log[i].parent_arg = None
                /\ held => Get(log[i].line, ParentIdCol(log[i].path))
                              = JsonValue(log[i].open[Len(log[i].open)].id)
                /\ \A j \in Rows : log[j].owner # array.obj

(* C15 *)

\* the last own-ID value written to table t before the i-th append, 0 when none
LastBefore(i, t) ==
    IF RowsBefore(i, t) = {} THEN PyInt(0)
    ELSE log[CHOOSE j \in RowsBefore(i, t) :
                \A k \in RowsBefore(i, t) : k <= j].record[1].v

\* the innermost parse_array call the i-th row was written under: the writing
\* call for an element, the caller for an object (0 when there is none)
InnerArray(i) ==
    IF log[i].kind = "element" THEN Writer_(i)
    ELSE IF ObjectInArray(i) THEN Writer_(i) - 1
    ELSE 0

RECURSIVE OuterArray(_, _)
\* the outermost call of the run of nested parse_array calls that ends at call a
OuterArray(c, a) ==
    IF a > 1 /\ c[a - 1].mode = "array" THEN OuterArray(c, a - 1) ELSE a

\* C15: an array that is an element of an array is walked at the path and with
\* the parent ID of the outer array, at any depth; the rows of its elements and
\* objects go to the outer array's table and take that table's next ID.
C15_NestedArraysShareTable ==
    /\ \A k \in 2..Len(stack) :
          (stack[k].mode = "array" /\ stack[k - 1].mode = "array") =>
              /\ stack[k].path = stack[k - 1].path
              /\ stack[k].parent_id = stack[k - 1].parent_id
    /\ \A i \in Rows :
          InnerArray(i) > 0 =>
              LET outer == log[i].calls[OuterArray(log[i].calls, InnerArray(i))]
              IN  /\ log[i].path = outer.path
                  /\ log[i].table = Name(outer.path)
                  /\ log[i].parent_arg = outer.parent_id
                  /\ log[i].alloc = PyAdd(LastBefore(i, log[i].table), PyInt(1))

\* an element of an array nested in an array was numbered after a row that the
\* outer array itself put in the same table
C15_Witness ==
    \E i, j \in Rows :
        /\ j < i
        /\ log[i].kind = "element"
        /\ OuterArray(log[i].calls, InnerArray(i)) < InnerArray(i)
        /\ log[j].table = log[i].table
        /\ InnerArray(j) = OuterArray(log[i].calls, InnerArray(i))

(* C16 *)

\* C16: a row has a parent-ID column exactly when its path has more than one
\* segment, that is when it was built under at least one keyed descent; the
\* column is then the second one, and a row of the root table has only its ID
\* column, its fields and value.
C16_ParentColumnIffHasParent ==
    \A i \in Rows :
        /\ (log[i].parent_arg # None) <=> HasParent(log[i].path)
        /\ Len(log[i].path) = 1 + Len(log[i].open)
        /\ HasParent(log[i].path) =>
              /\ Len(log[i].line) >= 2
              /\ log[i].line[2].k = ParentIdCol(log[i].path)
        /\ ~HasParent(log[i].path) =>
              \A c \in 2..Len(log[i].line) :
                  \/ log[i].line[c].k = VALUE_COL /\ log[i].kind = "element"
                  \/ \E f \in 1..Len(log[i].fields) : log[i].fields[f] = log[i].line[c].k

\* a completed run that wrote a root row and, under a key, an array element and
\* an object
C16_Witness ==
    /\ Completed
    /\ \E i, j, k \in Rows :
          /\ ~HasParent(log[i].path)
          /\ HasParent(log[j].path) /\ log[j].kind = "element"
          /\ HasParent(log[k].path) /\ log[k].kind = "object"

(* C17 *)

\* C17: the path is a balanced stack. A call entered from an object runs at the
\* caller's path plus the pending key, a call entered from an array or from main
\* at the caller's path; while a call is the innermost one the path is the path
\* at its entry, so a return leaves the caller the path it had; a row's table is
\* named by the path at its object's start; with no call open the path is the
\* stem alone.
C17_HierarchyIsBalancedStack ==
    /\ stack = <<>> => hierarchy = <<Stem>>
    /\ pc = "walk" => hierarchy = Top.path
    /\ \A k \in 1..Len(stack) :
          stack[k].path =
              IF k = 1 THEN <<Stem>>
              ELSE IF stack[k - 1].mode = "map"
                   THEN Append(stack[k - 1].path, stack[k - 1].map_key)
                   ELSE stack[k - 1].path
    /\ \A i \in Rows :
          /\ log[i].path = log[i].calls[Writer_(i)].path
          /\ log[i].table = Name(log[i].calls[Writer_(i)].path)

\* a completed run that wrote a row two keys deep and, after the returns, a row
\* at a shorter path
C17_Witness ==
    /\ Completed
    /\ hierarchy = <<Stem>>
    /\ \E i, j \in Rows :
          /\ i < j
          /\ Len(log[i].path) = 3
          /\ Len(log[j].path) < 3
          /\ log[j].kind = "object"

(* C18 *)

Opens(e) == e.type \in {"start_map", "start_array"}

Closes(e) == e.type \in {"end_map", "end_array"}

\* structures opened less structures closed by the events p..q of the stream
Balance(p, q) ==
    Cardinality({x \in p..q : Opens(stream[x])})
        - Cardinality({x \in p..q : Closes(stream[x])})

\* the start events among the first n events whose end event is not among them
Unmatched(n) ==
    {p \in 1..n : Opens(stream[p]) /\ \A q \in p..n : Balance(p, q) > 0}

\* C18: the walk of a well-formed stream terminates with every procedure
\* returned. The procedures open after n events are those entered on the start
\* events still unmatched, innermost last, each in the mode of its start event
\* (so each returned on its own end event and events were taken one by one in
\* order); the program never ends with a procedure open; and when the top-level
\* procedure has returned nothing is left in the stream.
C18_WalkTerminatesBalanced ==
    /\ pc = "walk" =>
          /\ {stack[k].obj : k \in 1..Len(stack)} = Unmatched(pos)
          /\ \A k \in 1..Len(stack) :
                /\ stream[stack[k].obj].type =
                      (IF stack[k].mode = "map" THEN "start_map" ELSE "start_array")
                /\ k > 1 => stack[k - 1].obj < stack[k].obj
    /\ Ended => stack = <<>> /\ Unmatched(pos) = {}
    /\ pc \in {"end", "done"} => pos = Len(stream)

(* C19 *)

\* the innermost structure open when the p-th event is read, 0 at the top level
Holder(p) ==
    IF Unmatched(p - 1) = {} THEN 0
    ELSE CHOOSE q \in Unmatched(p - 1) : \A x \in Unmatched(p - 1) : x <= q

\* the key of object q that the p-th event is read under
KeyAt(q, p) ==
    LET ks == {m \in (q + 1)..(p - 1) :
                  stream[m].type = "map_key" /\ Holder(m) = q}
    IN  stream[CHOOSE m \in ks : \A x \in ks : x <= m].value

RECURSIVE PathUnder(_, _)
\* the stem and the keys under which the structures E hold the p-th event
PathUnder(E, p) ==
    IF E = {} THEN <<Stem>>
    ELSE LET q == CHOOSE x \in E : \A y \in E : y <= x
         IN  IF stream[q].type = "start_map"
             THEN Append(PathUnder(E \ {q}, p), KeyAt(q, p))
             ELSE PathUnder(E \ {q}, p)

\* the hierarchy path of the p-th event of the document
PathAt(p) == PathUnder(Unmatched(p - 1), p)

\* the objects and the scalar array elements among the events read
Units ==
    {p \in 1..pos :
        \/ stream[p].type = "start_map"
        \/ /\ stream[p].type \in ScalarTypes
           /\ Holder(p) # 0
           /\ stream[Holder(p)].type = "start_array"}

\* C19: every object read has exactly one row, none while its end_map is still
\* to be read and one from then on, empty or not; when the run has ended every
\* object and scalar array element has its row, so a table has as many rows as
\* there are objects and scalar array elements at paths with its name; a
\* document {} leaves one row in the root table holding the ID column only.
C19_OneRowPerObject ==
    /\ \A p \in 1..pos :
          stream[p].type = "start_map" =>
              /\ \A i \in Rows : log[i].owner = p => log[i].kind = "object"
              /\ Cardinality({i \in Rows : log[i].owner = p})
                    = IF p \in Unmatched(pos) /\ ~Ended THEN 0 ELSE 1
    /\ Ended =>
          \A t \in {Name(PathAt(p)) : p \in Units} \cup {log[i].table : i \in Rows} :
              Cardinality(RowsOf(t))
                  = Cardinality({p \in Units : Name(PathAt(p)) = t})
    /\ (pos >= 2 /\ stream[1].type = "start_map" /\ stream[2].type = "end_map") =>
          /\ Len(log) = 1
          /\ log[1].table = Name(<<Stem>>)
          /\ log[1].line = <<[k |-> IdCol(<<Stem>>), v |-> JsonInt(1)]>>

====
